---- MODULE Spec2Model ----
(***************************************************************************)
(* MT5 candle fetcher (src/main.py): the connection gate                   *)
(* (_ensure_mt5_ready / reset_mt5), the clock-offset resolver              *)
(* (_ensure_delta / _parse_delta_text / reset_delta), the two fetch        *)
(* handlers, the status handler, the background updater and the payload    *)
(* normaliser (_to_payload).                                               *)
(*                                                                         *)
(* Threads: request workers, the GUI (operator) thread and the updater.    *)
(* One step of the model is one access to shared state (a global, a GUI    *)
(* field, the lock or the terminal) together with the local computation    *)
(* that follows it.                                                        *)
(*                                                                         *)
(* Texts are sequences of one-character strings.  Durations are seconds,   *)
(* instants are epoch seconds; the auto-detection works in milliseconds.   *)
(***************************************************************************)
EXTENDS Integers, Sequences, FiniteSets, TLC

VARIABLES
  mt5_ready,   \* global mt5_ready (line 54)
  delta,       \* global delta (line 51): None or seconds
  mt5_lock,    \* holder of mt5_lock (line 53): Free, a worker or the GUI thread
  utc_time,    \* global utc_time (line 50): None or an instant
  creds,       \* the four credential fields of the window, as one value
  delta_input, \* text of window.delta_input
  terminal,    \* the MT5 terminal: "down", "init" (initialized), "logged"
  gate,        \* history: the initialize/login calls since the last connection reset
  pc,          \* per worker: position in its handler
  loc,         \* per worker: the handler's local variables
  gpc,         \* position of the GUI thread
  tpc,         \* position of update_utc_time
  reqs,        \* requests started so far
  guiOps,      \* operator actions so far
  fin,         \* input of the pure-function specifications
  fout         \* output of the pure-function specifications

vars == <<mt5_ready, delta, mt5_lock, utc_time, creds, delta_input, terminal,
          gate, pc, loc, gpc, tpc, reqs, guiOps, fin, fout>>

\* Optional values: None is the empty tuple, a present value v is <<v>>
None == <<>>
Some(v) == <<v>>

-----------------------------------------------------------------------------
(* Bounds of the model.                                                    *)

\* request workers running concurrently
NWorkers == 2
\* requests started in one behaviour
MaxReq == 2
\* operator actions (typing into a field, pressing a reset button) in one behaviour
MaxGuiOps == 2
\* initialize (login) calls counted between two connection resets: the count stops there
MaxCount == 2
\* raw records in one normalised frame
MaxBars == 2
\* largest field value of a raw record
MaxField == 1

Workers == 1..NWorkers

-----------------------------------------------------------------------------
(* Python text helpers.                                                    *)

Digits == {"0", "1", "2", "3", "4", "5", "6", "7", "8", "9"}

DigitVal(c) ==
  CASE c = "0" -> 0 [] c = "1" -> 1 [] c = "2" -> 2 [] c = "3" -> 3
    [] c = "4" -> 4 [] c = "5" -> 5 [] c = "6" -> 6 [] c = "7" -> 7
    [] c = "8" -> 8 [] c = "9" -> 9

\* str.lstrip(chars)
RECURSIVE LStrip(_, _)
LStrip(s, chars) ==
  IF s # <<>> /\ Head(s) \in chars THEN LStrip(Tail(s), chars) ELSE s

\* str.rstrip(chars)
RECURSIVE RStrip(_, _)
RStrip(s, chars) ==
  IF s # <<>> /\ s[Len(s)] \in chars
  THEN RStrip(SubSeq(s, 1, Len(s) - 1), chars) ELSE s

\* str.strip()
Strip(s) == RStrip(LStrip(s, {" "}), {" "})

\* str.isdigit(): false on the empty text
IsDigit(s) == s # <<>> /\ \A i \in 1..Len(s) : s[i] \in Digits

RECURSIVE DecVal(_)
DecVal(s) ==
  IF s = <<>> THEN 0 ELSE DecVal(SubSeq(s, 1, Len(s) - 1)) * 10 + DigitVal(s[Len(s)])

\* int(text): surrounding blanks, at most one sign, then digits; ValueError otherwise
PyInt(s) ==
  LET t == Strip(s)
      signed == t # <<>> /\ t[1] \in {"+", "-"}
      body == IF signed THEN Tail(t) ELSE t
  IN IF IsDigit(body)
     THEN [ok |-> TRUE, val |-> IF signed /\ t[1] = "-" THEN 0 - DecVal(body) ELSE DecVal(body)]
     ELSE [ok |-> FALSE, val |-> 0]

\* str.split(":")
RECURSIVE SplitColon(_)
SplitColon(s) ==
  IF \A i \in 1..Len(s) : s[i] # ":" THEN <<s>>
  ELSE LET k == CHOOSE i \in 1..Len(s) : s[i] = ":" /\ \A j \in 1..(i - 1) : s[j] # ":"
       IN <<SubSeq(s, 1, k - 1)>> \o SplitColon(SubSeq(s, k + 1, Len(s)))

\* result of a call: a value, an HTTPException (status and kind) or another exception
Ok(v) == [kind |-> "ok", val |-> v]
Http(status, what) == [kind |-> "http", status |-> status, what |-> what]
Raised(what) == [kind |-> "exception", what |-> what]

-----------------------------------------------------------------------------
(* _parse_delta_text (lines 102-129); the duration in seconds.             *)

ParseMinutesForm(s) ==
  LET n == PyInt(s)
  IN IF n.ok THEN Ok(n.val * 60) ELSE Raised("ValueError")

\* mutant: the sign character is dropped and not applied
ParseClockFormNoSign(s) ==
  LET signed == s[1] \in {"+", "-"}
      parts == SplitColon(IF signed THEN Tail(s) ELSE s)
  IN IF Len(parts) \notin {2, 3} THEN Http(400, "InvalidDeltaFormat")
     ELSE LET hh == PyInt(parts[1])
              mm == PyInt(parts[2])
              ss == IF Len(parts) = 3 THEN PyInt(parts[3]) ELSE [ok |-> TRUE, val |-> 0]
          IN IF hh.ok /\ mm.ok /\ ss.ok
             THEN Ok(hh.val * 3600 + mm.val * 60 + ss.val)
             ELSE Http(400, "InvalidDeltaFormat")

ParseClockForm(s) ==
  LET signed == s[1] \in {"+", "-"}
      sign == IF signed /\ s[1] = "-" THEN 0 - 1 ELSE 1
      parts == SplitColon(IF signed THEN Tail(s) ELSE s)
  IN IF Len(parts) \notin {2, 3} THEN Http(400, "InvalidDeltaFormat")
     ELSE LET hh == PyInt(parts[1])
              mm == PyInt(parts[2])
              ss == IF Len(parts) = 3 THEN PyInt(parts[3]) ELSE [ok |-> TRUE, val |-> 0]
          IN IF hh.ok /\ mm.ok /\ ss.ok
             THEN Ok(sign * (hh.val * 3600 + mm.val * 60 + ss.val))
             ELSE Http(400, "InvalidDeltaFormat")

_parse_delta_text(text) ==
  LET s == Strip(text)
  IN IF s \in {<<>>, <<"0">>, <<"+", "0">>, <<"-", "0">>} THEN Ok(0)
     ELSE IF IsDigit(LStrip(s, {"+", "-"})) THEN ParseMinutesForm(s)
     ELSE ParseClockForm(s)

-----------------------------------------------------------------------------
(* Auto-detection arithmetic of _ensure_delta (lines 154-160).             *)

\* mutant: the quotient cut towards zero, as int() would
PyRoundTrunc(n, d) ==
  IF n >= 0 THEN n \div d ELSE 0 - ((0 - n) \div d)

\* round(n / d) for d > 0, Python 3: to the nearest integer, a tie to the even one
PyRound(n, d) ==
  LET q == n \div d
      r == n % d
  IN IF 2 * r < d THEN q
     ELSE IF 2 * r > d THEN q + 1
     ELSE IF q % 2 = 0 THEN q ELSE q + 1

\* localTimeFirstTick in milliseconds: the bar's second, with microsecond
\* replaced by (bar time % 1000) * 1000 (line 155)
LocalTimeFirstTickMs(barTime) == barTime * 1000 + (barTime % 1000)

\* the cached offset in seconds, from the bar's time and utcnow in milliseconds
AutoDelta(barTime, nowMs) ==
  LET rawOffsetMs == LocalTimeFirstTickMs(barTime) - nowMs
      roundedMinutes == PyRound(rawOffsetMs, 30 * 60 * 1000) * 30
  IN roundedMinutes * 60

-----------------------------------------------------------------------------
(* _to_payload (lines 184-198).  A frame is [cols, rows]: the columns      *)
(* present and, per record, a function from them to values.                *)

PayloadCols ==
  <<"adjusted_time", "open", "high", "low", "close", "tick_volume", "spread", "real_volume">>

\* mutant: the offset added instead of subtracted
PayloadRowAdd(cols, r, secs) ==
  [k \in 1..Len(PayloadCols) |->
     IF PayloadCols[k] = "adjusted_time" THEN r["time"] + secs
     ELSE IF PayloadCols[k] \in cols THEN r[PayloadCols[k]]
     ELSE 0]

PayloadRow(cols, r, secs) ==
  [k \in 1..Len(PayloadCols) |->
     IF PayloadCols[k] = "adjusted_time" THEN r["time"] - secs
     ELSE IF PayloadCols[k] \in cols THEN r[PayloadCols[k]]
     ELSE 0]

_to_payload(df, delta_) ==
  IF df.rows = <<>> \/ df.cols = {} THEN Ok(<<>>)
  ELSE IF "time" \notin df.cols THEN Raised("KeyError")
  ELSE IF delta_ = None THEN Raised("AttributeError")
  ELSE Ok([i \in 1..Len(df.rows) |-> PayloadRow(df.cols, df.rows[i], delta_[1])])

-----------------------------------------------------------------------------
(* The environment: the terminal's bars and clock, the operator's inputs.  *)

\* TIMEFRAME_MAP (lines 56-63): the codes it maps
TIMEFRAME_MAP ==
  {"M1", "M2", "M3", "M4", "M5", "M6", "M10", "M12", "M15", "M20", "M30",
   "H1", "H2", "H3", "H4", "H6", "H8", "H12", "D1", "W1", "MN1"}

\* time_frame codes the requests of the model carry
TimeFrameInputs == {"H1", "X9"}

\* credential fields: one of them blank; all filled with a numeric login;
\* all filled with a login that is no integer
CredValues == {"absent", "ok", "badlogin"}

\* texts the operator types into the Delta field
DeltaTexts == {<<>>, <<"6", "0">>, <<"x">>}

\* time of the terminal's most recent XAUUSD M1 bar
RefBarTime == 1000 * 1000 + 999

\* utcnow at an auto-detection, in milliseconds: 47 minutes after the bar
NowInstants == {RefBarTime * 1000 + 47 * 60000}

RawCols == {"time", "open", "high", "low", "close", "tick_volume", "spread", "real_volume"}

Bar(t) == [c \in RawCols |-> IF c = "time" THEN t ELSE 1]

\* the frame of the rates a fetch returns
SrcFrame == [cols |-> RawCols, rows |-> <<Bar(RefBarTime - 60), Bar(RefBarTime)>>]

\* what a bar fetch can return: rates only from a terminal that is logged in
FetchResults == IF terminal = "logged" THEN {"rates", "none"} ELSE {"none"}

-----------------------------------------------------------------------------
(* Workers: locals and control.                                            *)

NoOut == [kind |-> "none"]

\* kind is the handler: "fetch" while get_candles and get_candles_by_offset run
\* their common first two lines (242-243, 265-266), then "range" or "offset"
FreshLoc(k, tf) ==
  [kind |-> k, tf |-> tf, ret |-> "req", gui_text |-> <<>>, val |-> None,
   dFrom |-> None, dTo |-> None, fetched |-> FALSE,
   wrote |-> {}, out |-> NoOut]

IdleLoc == FreshLoc("none", "none")

Free == <<>>
Holder(w) == <<"worker", w>>
GuiHolder == <<"gui">>

\* The terminal's record of the gate calls since the last connection reset:
\* last is the latest call ("init+" / "init-": initialize returned True / False,
\* "login+" / "login-": login returned True / False, "login!": int(login text)
\* raised before login was called), inits and logins count the calls, failed
\* says that one of them did not succeed; epoch counts the connection resets.
NoGate(e) == [last |-> "none", inits |-> 0, logins |-> 0, failed |-> FALSE, epoch |-> e]

Count(n) == IF n < MaxCount THEN n + 1 ELSE n

Called(g, call) ==
  [last |-> call,
   inits |-> IF call \in {"init+", "init-"} THEN Count(g.inits) ELSE g.inits,
   logins |-> IF call \in {"login+", "login-"} THEN Count(g.logins) ELSE g.logins,
   failed |-> g.failed \/ call \in {"init-", "login-", "login!"},
   epoch |-> g.epoch]

\* the handler ends: the response (or error) is in out
Finish(w, l, result) ==
  /\ pc' = [pc EXCEPT ![w] = "done"]
  /\ loc' = [loc EXCEPT ![w] = [l EXCEPT !.out = result, !.gui_text = <<>>, !.val = None,
                                           !.dFrom = None, !.dTo = None]]

Goto(w, l, where) ==
  /\ pc' = [pc EXCEPT ![w] = where]
  /\ loc' = [loc EXCEPT ![w] = l]

\* _ensure_mt5_ready returns to its caller: get_candles* (242, 265) or _ensure_delta (150)
EnsureReturn(w, l) ==
  Goto(w, [l EXCEPT !.ret = "req"], IF l.ret = "req" THEN "d_check" ELSE "d_fetch")

\* _ensure_delta returns to get_candles (243) or get_candles_by_offset (266)
DeltaReturn(w, l) ==
  \/ Goto(w, [l EXCEPT !.kind = "range", !.gui_text = <<>>, !.val = None], "g_from")
  \/ Goto(w, [l EXCEPT !.kind = "offset", !.gui_text = <<>>, !.val = None], "o_fetch")

-----------------------------------------------------------------------------
(* A request arrives (lines 240-241, 263-264, 222-223).                    *)

Start(w) ==
  /\ pc[w] = "idle"
  /\ reqs < MaxReq
  /\ reqs' = reqs + 1
  /\ \/ \E tf \in TimeFrameInputs : Goto(w, FreshLoc("fetch", tf), "e_check")
     \/ Goto(w, FreshLoc("status", "none"), "s_read")
  /\ UNCHANGED <<mt5_ready, delta, mt5_lock, utc_time, creds, delta_input, terminal,
                 gate, gpc, tpc, guiOps, fin, fout>>

\* the response has been sent
Respond(w) ==
  /\ pc[w] = "done"
  /\ Goto(w, IdleLoc, "idle")
  /\ UNCHANGED <<mt5_ready, delta, mt5_lock, utc_time, creds, delta_input, terminal,
                 gate, gpc, tpc, reqs, guiOps, fin, fout>>

-----------------------------------------------------------------------------
(* _ensure_mt5_ready (lines 76-100).                                       *)

\* lines 81-85: credentials present, then the unlocked check
EnsureCheck(w) ==
  /\ pc[w] = "e_check"
  /\ IF creds = "absent" THEN Finish(w, loc[w], Http(503, "NotConfigured"))
     ELSE IF mt5_ready THEN EnsureReturn(w, loc[w])
     ELSE Goto(w, loc[w], "e_lock")
  /\ UNCHANGED <<mt5_ready, delta, mt5_lock, utc_time, creds, delta_input, terminal,
                 gate, gpc, tpc, reqs, guiOps, fin, fout>>

\* mutant: the lock taken without the second check
EnsureLockNoRecheck(w) ==
  /\ pc[w] = "e_lock"
  /\ mt5_lock = Free
  /\ Goto(w, loc[w], "e_init")
  /\ mt5_lock' = Holder(w)
  /\ UNCHANGED <<mt5_ready, delta, utc_time, creds, delta_input, terminal,
                 gate, gpc, tpc, reqs, guiOps, fin, fout>>

\* lines 87-89: take the lock, check again; a return inside `with` releases it
EnsureLock(w) ==
  /\ pc[w] = "e_lock"
  /\ mt5_lock = Free
  /\ IF mt5_ready
     THEN EnsureReturn(w, loc[w]) /\ UNCHANGED mt5_lock
     ELSE Goto(w, loc[w], "e_init") /\ mt5_lock' = Holder(w)
  /\ UNCHANGED <<mt5_ready, delta, utc_time, creds, delta_input, terminal,
                 gate, gpc, tpc, reqs, guiOps, fin, fout>>

\* mutant: a terminal left initialized by an earlier login failure is not
\* initialized again
EnsureInitKeep(w) ==
  /\ pc[w] = "e_init"
  /\ IF terminal = "init"
     THEN /\ Goto(w, loc[w], "e_login")
          /\ UNCHANGED <<terminal, gate, mt5_lock>>
     ELSE \/ /\ terminal' = "init"
             /\ gate' = Called(gate, "init+")
             /\ Goto(w, loc[w], "e_login")
             /\ UNCHANGED mt5_lock
          \/ /\ terminal' = "down"
             /\ gate' = Called(gate, "init-")
             /\ mt5_lock' = Free
             /\ Finish(w, loc[w], Http(500, "InitFailed"))
  /\ UNCHANGED <<mt5_ready, delta, utc_time, creds, delta_input,
                 gpc, tpc, reqs, guiOps, fin, fout>>

\* lines 90-92: mt5.initialize(path); the raise leaves `with`, releasing the lock
EnsureInit(w) ==
  /\ pc[w] = "e_init"
  /\ \/ /\ terminal' = "init"
        /\ gate' = Called(gate, "init+")
        /\ Goto(w, loc[w], "e_login")
        /\ UNCHANGED mt5_lock
     \/ /\ terminal' = "down"
        /\ gate' = Called(gate, "init-")
        /\ mt5_lock' = Free
        /\ Finish(w, loc[w], Http(500, "InitFailed"))
  /\ UNCHANGED <<mt5_ready, delta, utc_time, creds, delta_input,
                 gpc, tpc, reqs, guiOps, fin, fout>>

\* mutant: the lock is acquired and released by hand and the raise after a
\* failed login skips the release
EnsureLoginKeepsLock(w) ==
  /\ pc[w] = "e_login"
  /\ \/ /\ creds # "badlogin"
        /\ terminal' = "logged"
        /\ gate' = Called(gate, "login+")
        /\ Goto(w, loc[w], "e_set")
        /\ UNCHANGED mt5_lock
     \/ /\ creds # "badlogin"
        /\ gate' = Called(gate, "login-")
        /\ Finish(w, loc[w], Http(500, "LoginFailed"))
        /\ UNCHANGED <<terminal, mt5_lock>>
     \/ /\ creds # "ok"
        /\ gate' = Called(gate, "login!")
        /\ mt5_lock' = Free
        /\ Finish(w, loc[w], Raised("ValueError"))
        /\ UNCHANGED terminal
  /\ UNCHANGED <<mt5_ready, delta, utc_time, creds, delta_input,
                 gpc, tpc, reqs, guiOps, fin, fout>>

\* lines 93-98: int(login text), then mt5.login(...)
EnsureLogin(w) ==
  /\ pc[w] = "e_login"
  /\ \/ /\ creds # "badlogin"
        /\ terminal' = "logged"
        /\ gate' = Called(gate, "login+")
        /\ Goto(w, loc[w], "e_set")
        /\ UNCHANGED mt5_lock
     \/ /\ creds # "badlogin"
        /\ gate' = Called(gate, "login-")
        /\ mt5_lock' = Free
        /\ Finish(w, loc[w], Http(500, "LoginFailed"))
        /\ UNCHANGED terminal
     \/ /\ creds # "ok"
        /\ gate' = Called(gate, "login!")
        /\ mt5_lock' = Free
        /\ Finish(w, loc[w], Raised("ValueError"))
        /\ UNCHANGED terminal
  /\ UNCHANGED <<mt5_ready, delta, utc_time, creds, delta_input,
                 gpc, tpc, reqs, guiOps, fin, fout>>

\* lines 99-100: mt5_ready = True, leave `with`
EnsureSet(w) ==
  /\ pc[w] = "e_set"
  /\ mt5_ready' = TRUE
  /\ mt5_lock' = Free
  /\ EnsureReturn(w, [loc[w] EXCEPT !.wrote = @ \cup {"mt5_ready"}])
  /\ UNCHANGED <<delta, utc_time, creds, delta_input, terminal,
                 gate, gpc, tpc, reqs, guiOps, fin, fout>>

-----------------------------------------------------------------------------
(* _ensure_delta (lines 131-161).                                          *)

\* mutant: a text in the Delta field is read even when the offset is cached
DeltaCheckGuiFirst(w) ==
  /\ pc[w] = "d_check"
  /\ IF Strip(delta_input) # <<>>
     THEN Goto(w, [loc[w] EXCEPT !.gui_text = Strip(delta_input)], "d_gui")
     ELSE IF delta # None THEN DeltaReturn(w, loc[w])
     ELSE Goto(w, [loc[w] EXCEPT !.ret = "delta"], "e_check")
  /\ UNCHANGED <<mt5_ready, delta, mt5_lock, utc_time, creds, delta_input, terminal,
                 gate, gpc, tpc, reqs, guiOps, fin, fout>>

\* lines 136-143: the unlocked check, then the text of the Delta field;
\* an empty text goes on to _ensure_mt5_ready (line 150)
DeltaCheck(w) ==
  /\ pc[w] = "d_check"
  /\ IF delta # None THEN DeltaReturn(w, loc[w])
     ELSE IF Strip(delta_input) # <<>>
     THEN Goto(w, [loc[w] EXCEPT !.gui_text = Strip(delta_input)], "d_gui")
     ELSE Goto(w, [loc[w] EXCEPT !.ret = "delta"], "e_check")
  /\ UNCHANGED <<mt5_ready, delta, mt5_lock, utc_time, creds, delta_input, terminal,
                 gate, gpc, tpc, reqs, guiOps, fin, fout>>

\* mutant: a text that does not parse caches the zero offset before the error
DeltaGuiCacheFirst(w) ==
  /\ pc[w] = "d_gui"
  /\ LET parsed == _parse_delta_text(loc[w].gui_text)
     IN IF parsed.kind = "ok"
        THEN /\ delta' = Some(parsed.val)
             /\ DeltaReturn(w, [loc[w] EXCEPT !.wrote = @ \cup {"delta"}])
        ELSE /\ delta' = Some(0)
             /\ Finish(w, [loc[w] EXCEPT !.wrote = @ \cup {"delta"}], parsed)
  /\ UNCHANGED <<mt5_ready, mt5_lock, utc_time, creds, delta_input, terminal,
                 gate, gpc, tpc, reqs, guiOps, fin, fout>>

\* mutant: the text is parsed only once the connection is Ready
DeltaGuiNeedsReady(w) ==
  /\ pc[w] = "d_gui"
  /\ LET parsed == _parse_delta_text(loc[w].gui_text)
     IN IF ~mt5_ready
        THEN /\ UNCHANGED delta
             /\ Finish(w, loc[w], Http(500, "DeltaUnavailable"))
        ELSE IF parsed.kind = "ok"
        THEN /\ delta' = Some(parsed.val)
             /\ DeltaReturn(w, [loc[w] EXCEPT !.wrote = @ \cup {"delta"}])
        ELSE /\ UNCHANGED delta
             /\ Finish(w, loc[w], parsed)
  /\ UNCHANGED <<mt5_ready, mt5_lock, utc_time, creds, delta_input, terminal,
                 gate, gpc, tpc, reqs, guiOps, fin, fout>>

\* lines 144-147: parse the text read and cache it
DeltaGui(w) ==
  /\ pc[w] = "d_gui"
  /\ LET parsed == _parse_delta_text(loc[w].gui_text)
     IN IF parsed.kind = "ok"
        THEN /\ delta' = Some(parsed.val)
             /\ DeltaReturn(w, [loc[w] EXCEPT !.wrote = @ \cup {"delta"}])
        ELSE /\ UNCHANGED delta
             /\ Finish(w, loc[w], parsed)
  /\ UNCHANGED <<mt5_ready, mt5_lock, utc_time, creds, delta_input, terminal,
                 gate, gpc, tpc, reqs, guiOps, fin, fout>>

\* mutant: without a reference bar the zero offset is cached before the error
DeltaFetchFallback(w) ==
  /\ pc[w] = "d_fetch"
  /\ \E r \in FetchResults :
       IF r = "none"
       THEN /\ delta' = Some(0)
            /\ Finish(w, [loc[w] EXCEPT !.wrote = @ \cup {"delta"}],
                      Http(500, "DeltaUnavailable"))
       ELSE /\ UNCHANGED delta
            /\ \E now \in NowInstants :
                 Goto(w, [loc[w] EXCEPT !.val = Some(AutoDelta(RefBarTime, now))], "d_set")
  /\ UNCHANGED <<mt5_ready, mt5_lock, utc_time, creds, delta_input, terminal,
                 gate, gpc, tpc, reqs, guiOps, fin, fout>>

\* lines 151-159: the reference bar, utcnow, the rounded offset
DeltaFetch(w) ==
  /\ pc[w] = "d_fetch"
  /\ \E r \in FetchResults :
       IF r = "none" THEN Finish(w, loc[w], Http(500, "DeltaUnavailable"))
       ELSE \E now \in NowInstants :
              Goto(w, [loc[w] EXCEPT !.val = Some(AutoDelta(RefBarTime, now))], "d_set")
  /\ UNCHANGED <<mt5_ready, delta, mt5_lock, utc_time, creds, delta_input, terminal,
                 gate, gpc, tpc, reqs, guiOps, fin, fout>>

\* line 160: delta = timedelta(minutes=roundedMinutes)
DeltaSet(w) ==
  /\ pc[w] = "d_set"
  /\ delta' = loc[w].val
  /\ DeltaReturn(w, [loc[w] EXCEPT !.wrote = @ \cup {"delta"}])
  /\ UNCHANGED <<mt5_ready, mt5_lock, utc_time, creds, delta_input, terminal,
                 gate, gpc, tpc, reqs, guiOps, fin, fout>>

-----------------------------------------------------------------------------
(* get_candles (lines 240-261), after its two ensure calls.                *)

\* mutant: the time frame is not looked up before the times are parsed
RangeFromNoCheck(w) ==
  /\ pc[w] = "g_from"
  /\ \/ Finish(w, loc[w], Http(400, "InvalidTimeFormat"))
     \/ IF delta = None THEN Finish(w, loc[w], Http(400, "InvalidTimeFormat253"))
        ELSE Goto(w, [loc[w] EXCEPT !.dFrom = delta], "g_to")
  /\ UNCHANGED <<mt5_ready, delta, mt5_lock, utc_time, creds, delta_input, terminal,
                 gate, gpc, tpc, reqs, guiOps, fin, fout>>

\* lines 244-248: the time frame, then _parse_time_any(time_from) + delta;
\* a TypeError of the addition becomes the 400 of line 253
RangeFrom(w) ==
  /\ pc[w] = "g_from"
  /\ IF loc[w].tf \notin TIMEFRAME_MAP THEN Finish(w, loc[w], Http(400, "InvalidTimeFrame"))
     ELSE \/ Finish(w, loc[w], Http(400, "InvalidTimeFormat"))
          \/ IF delta = None THEN Finish(w, loc[w], Http(400, "InvalidTimeFormat253"))
             ELSE Goto(w, [loc[w] EXCEPT !.dFrom = delta], "g_to")
  /\ UNCHANGED <<mt5_ready, delta, mt5_lock, utc_time, creds, delta_input, terminal,
                 gate, gpc, tpc, reqs, guiOps, fin, fout>>

\* line 249: _parse_time_any(time_to) + delta
RangeTo(w) ==
  /\ pc[w] = "g_to"
  /\ \/ Finish(w, loc[w], Http(400, "InvalidTimeFormat"))
     \/ IF delta = None THEN Finish(w, loc[w], Http(400, "InvalidTimeFormat253"))
        ELSE Goto(w, [loc[w] EXCEPT !.dTo = delta], "g_fetch")
  /\ UNCHANGED <<mt5_ready, delta, mt5_lock, utc_time, creds, delta_input, terminal,
                 gate, gpc, tpc, reqs, guiOps, fin, fout>>

\* lines 255-257: mt5.copy_rates_range
RangeFetch(w) ==
  /\ pc[w] = "g_fetch"
  /\ \E r \in FetchResults :
       IF r = "none" THEN Finish(w, [loc[w] EXCEPT !.fetched = TRUE], Http(404, "NoData"))
       ELSE Goto(w, [loc[w] EXCEPT !.fetched = TRUE], "g_pay")
  /\ UNCHANGED <<mt5_ready, delta, mt5_lock, utc_time, creds, delta_input, terminal,
                 gate, gpc, tpc, reqs, guiOps, fin, fout>>

\* lines 259-261 and 278-280: _to_payload(df, delta) with the global read again
Payload(w) ==
  /\ pc[w] \in {"g_pay", "o_pay"}
  /\ Finish(w, loc[w], _to_payload(SrcFrame, delta))
  /\ UNCHANGED <<mt5_ready, delta, mt5_lock, utc_time, creds, delta_input, terminal,
                 gate, gpc, tpc, reqs, guiOps, fin, fout>>

-----------------------------------------------------------------------------
(* get_candles_by_offset (lines 263-280), after its two ensure calls.      *)

\* count and offset values the requests of the model carry
CountInputs == {0, 1}
OffsetInputs == {0 - 1, 0}

\* lines 267-276: time frame, count, offset, then mt5.copy_rates_from_pos
OffsetFetch(w) ==
  /\ pc[w] = "o_fetch"
  /\ IF loc[w].tf \notin TIMEFRAME_MAP THEN Finish(w, loc[w], Http(400, "InvalidTimeFrame"))
     ELSE \E count \in CountInputs, offset \in OffsetInputs :
            IF count <= 0 THEN Finish(w, loc[w], Http(400, "InvalidCount"))
            ELSE IF offset < 0 THEN Finish(w, loc[w], Http(400, "InvalidOffset"))
            ELSE \E r \in FetchResults :
                   IF r = "none"
                   THEN Finish(w, [loc[w] EXCEPT !.fetched = TRUE], Http(404, "NoData"))
                   ELSE Goto(w, [loc[w] EXCEPT !.fetched = TRUE], "o_pay")
  /\ UNCHANGED <<mt5_ready, delta, mt5_lock, utc_time, creds, delta_input, terminal,
                 gate, gpc, tpc, reqs, guiOps, fin, fout>>

-----------------------------------------------------------------------------
(* status (lines 222-238): reads only.                                     *)

Status(w) ==
  /\ pc[w] = "s_read"
  /\ Finish(w, loc[w],
            Ok([gui_ready |-> TRUE, mt5_ready |-> mt5_ready,
                credentials_set |-> creds # "absent",
                delta_seconds |-> delta, utc_time_tracking |-> utc_time]))
  /\ UNCHANGED <<mt5_ready, delta, mt5_lock, utc_time, creds, delta_input, terminal,
                 gate, gpc, tpc, reqs, guiOps, fin, fout>>

-----------------------------------------------------------------------------
(* The GUI thread: the operator types and presses the reset buttons.       *)

TypeCreds ==
  /\ gpc = "idle"
  /\ guiOps < MaxGuiOps
  /\ guiOps' = guiOps + 1
  /\ \E c \in CredValues \ {creds} : creds' = c
  /\ UNCHANGED <<mt5_ready, delta, mt5_lock, utc_time, delta_input, terminal,
                 gate, pc, loc, gpc, tpc, reqs, fin, fout>>

TypeDelta ==
  /\ gpc = "idle"
  /\ guiOps < MaxGuiOps
  /\ guiOps' = guiOps + 1
  /\ \E t \in DeltaTexts \ {delta_input} : delta_input' = t
  /\ UNCHANGED <<mt5_ready, delta, mt5_lock, utc_time, creds, terminal,
                 gate, pc, loc, gpc, tpc, reqs, fin, fout>>

\* reset_delta (lines 420-423)
reset_delta ==
  /\ gpc = "idle"
  /\ guiOps < MaxGuiOps
  /\ guiOps' = guiOps + 1
  /\ delta' = None
  /\ UNCHANGED <<mt5_ready, mt5_lock, utc_time, creds, delta_input, terminal,
                 gate, pc, loc, gpc, tpc, reqs, fin, fout>>

\* the operator presses the reset button: reset_mt5 is entered (line 408)
ResetPress ==
  /\ gpc = "idle"
  /\ guiOps < MaxGuiOps
  /\ guiOps' = guiOps + 1
  /\ gpc' = "r_lock"
  /\ UNCHANGED <<mt5_ready, delta, mt5_lock, utc_time, creds, delta_input, terminal,
                 gate, pc, loc, tpc, reqs, fin, fout>>

\* mutant: shutdown is called whatever mt5_ready says
ResetLockAlwaysShutdown ==
  /\ gpc = "r_lock"
  /\ mt5_lock = Free
  /\ mt5_lock' = GuiHolder
  /\ gpc' = "r_shutdown"
  /\ UNCHANGED <<mt5_ready, delta, utc_time, creds, delta_input, terminal,
                 gate, pc, loc, tpc, reqs, guiOps, fin, fout>>

\* reset_mt5, lines 410-412: take the lock, read mt5_ready
ResetLock ==
  /\ gpc = "r_lock"
  /\ mt5_lock = Free
  /\ mt5_lock' = GuiHolder
  /\ gpc' = IF mt5_ready THEN "r_shutdown" ELSE "r_set"
  /\ UNCHANGED <<mt5_ready, delta, utc_time, creds, delta_input, terminal,
                 gate, pc, loc, tpc, reqs, guiOps, fin, fout>>

\* reset_mt5, lines 413-416: mt5.shutdown(), an exception swallowed
ResetShutdown ==
  /\ gpc = "r_shutdown"
  /\ \/ terminal' = "down"
     \/ UNCHANGED terminal
  /\ gpc' = "r_set"
  /\ UNCHANGED <<mt5_ready, delta, mt5_lock, utc_time, creds, delta_input,
                 gate, pc, loc, tpc, reqs, guiOps, fin, fout>>

\* mutant: mt5_ready is cleared only when the shutdown went through
ResetSetIfDown ==
  /\ gpc = "r_set"
  /\ mt5_ready' = IF terminal = "logged" THEN mt5_ready ELSE FALSE
  /\ mt5_lock' = Free
  /\ gate' = NoGate(gate.epoch + 1)
  /\ gpc' = "idle"
  /\ UNCHANGED <<delta, utc_time, creds, delta_input, terminal,
                 pc, loc, tpc, reqs, guiOps, fin, fout>>

\* reset_mt5, line 417: mt5_ready = False, leave `with`
ResetSet ==
  /\ gpc = "r_set"
  /\ mt5_ready' = FALSE
  /\ mt5_lock' = Free
  /\ gate' = NoGate(gate.epoch + 1)
  /\ gpc' = "idle"
  /\ UNCHANGED <<delta, utc_time, creds, delta_input, terminal,
                 pc, loc, tpc, reqs, guiOps, fin, fout>>

-----------------------------------------------------------------------------
(* update_utc_time (lines 203-213).                                        *)

\* mutant: the fetch is made without looking at mt5_ready
TrackerCheckAlways ==
  /\ tpc = "t_check"
  /\ tpc' = "t_fetch"
  /\ UNCHANGED <<mt5_ready, delta, mt5_lock, utc_time, creds, delta_input, terminal,
                 gate, pc, loc, gpc, reqs, guiOps, fin, fout>>

\* line 207: if mt5_ready; otherwise sleep and loop
TrackerCheck ==
  /\ tpc = "t_check"
  /\ mt5_ready
  /\ tpc' = "t_fetch"
  /\ UNCHANGED <<mt5_ready, delta, mt5_lock, utc_time, creds, delta_input, terminal,
                 gate, pc, loc, gpc, reqs, guiOps, fin, fout>>

\* mutant: an empty result marks the connection as lost
TrackerFetchMarksLost ==
  /\ tpc = "t_fetch"
  /\ \E r \in FetchResults :
       /\ utc_time' = IF r = "none" THEN utc_time ELSE Some(RefBarTime)
       /\ mt5_ready' = IF r = "none" THEN FALSE ELSE mt5_ready
  /\ tpc' = "t_check"
  /\ UNCHANGED <<delta, mt5_lock, creds, delta_input, terminal,
                 gate, pc, loc, gpc, reqs, guiOps, fin, fout>>

\* lines 208-213: the reference bar; nothing or an exception changes nothing
TrackerFetch ==
  /\ tpc = "t_fetch"
  /\ \E r \in FetchResults :
       utc_time' = IF r = "none" THEN utc_time ELSE Some(RefBarTime)
  /\ tpc' = "t_check"
  /\ UNCHANGED <<mt5_ready, delta, mt5_lock, creds, delta_input, terminal,
                 gate, pc, loc, gpc, reqs, guiOps, fin, fout>>

-----------------------------------------------------------------------------
(* The program after construction (lines 428-440): nothing is connected    *)
(* or resolved, and the operator has typed into the credential fields and  *)
(* the Delta field (or left them empty) before the first request.          *)

NoInput == [op |-> "none"]

Init ==
  /\ mt5_ready = FALSE
  /\ delta = None
  /\ mt5_lock = Free
  /\ utc_time = None
  /\ creds \in CredValues
  /\ delta_input \in DeltaTexts
  /\ terminal = "down"
  /\ gate = NoGate(0)
  /\ pc = [w \in Workers |-> "idle"]
  /\ loc = [w \in Workers |-> IdleLoc]
  /\ gpc = "idle"
  /\ tpc = "t_check"
  /\ reqs = 0
  /\ guiOps = 0
  /\ fin = NoInput
  /\ fout = NoOut

Next ==
  \/ \E w \in Workers :
       \/ Start(w) \/ Respond(w)
       \/ EnsureCheck(w) \/ EnsureLock(w) \/ EnsureInit(w) \/ EnsureLogin(w) \/ EnsureSet(w)
       \/ DeltaCheck(w) \/ DeltaGui(w) \/ DeltaFetch(w) \/ DeltaSet(w)
       \/ RangeFrom(w) \/ RangeTo(w) \/ RangeFetch(w) \/ OffsetFetch(w) \/ Payload(w)
       \/ Status(w)
  \/ TypeCreds \/ TypeDelta \/ reset_delta
  \/ ResetPress \/ ResetLock \/ ResetShutdown \/ ResetSet
  \/ TrackerCheck \/ TrackerFetch

Spec == Init /\ [][Next]_vars

-----------------------------------------------------------------------------
(* The normaliser alone: _to_payload applied to one frame and one offset.  *)

\* offsets (seconds) the normaliser is applied with
OffsetSeconds == {0 - 3600, 0, 1800}

\* a raw record with instant t whose other fields are v, v + 1, ...
Record(t, v) ==
  [c \in RawCols |->
     CASE c = "time" -> t
       [] c = "open" -> v
       [] c = "high" -> v + 1
       [] c = "low" -> v + 2
       [] c = "close" -> v + 3
       [] c = "tick_volume" -> v + 4
       [] c = "spread" -> v + 5
       [] c = "real_volume" -> v + 6]

Records == {Record(t * 60, v * 10) : t \in 0..MaxField, v \in 0..MaxField}

RECURSIVE SeqsUpTo(_, _)
SeqsUpTo(S, n) ==
  IF n = 0 THEN {<<>>}
  ELSE LET shorter == SeqsUpTo(S, n - 1)
       IN shorter \cup {Append(q, x) : q \in shorter, x \in S}

\* pd.DataFrame(rates): the columns are those of the records; one may be missing
Frame(rows, cols) ==
  [cols |-> cols, rows |-> [i \in 1..Len(rows) |-> [c \in cols |-> rows[i][c]]]]

Frames ==
  {Frame(rows, cols) : rows \in SeqsUpTo(Records, MaxBars),
                       cols \in {RawCols} \cup {RawCols \ {c} : c \in RawCols}}

\* everything but fin and fout stays as constructed
Quiet ==
  /\ mt5_ready = FALSE
  /\ mt5_lock = Free
  /\ utc_time = None
  /\ creds = "ok"
  /\ delta_input = <<>>
  /\ terminal = "down"
  /\ gate = NoGate(0)
  /\ pc = [w \in Workers |-> "idle"]
  /\ loc = [w \in Workers |-> IdleLoc]
  /\ gpc = "idle"
  /\ tpc = "t_check"
  /\ reqs = 0
  /\ guiOps = 0

InitNorm ==
  /\ Quiet
  /\ delta = None
  /\ fin \in {[op |-> "normalize", df |-> f, offset |-> o] : f \in Frames, o \in OffsetSeconds}
  /\ fout = NoOut

Normalize ==
  /\ fin.op = "normalize"
  /\ fout = NoOut
  /\ fout' = _to_payload(fin.df, Some(fin.offset))
  /\ UNCHANGED <<mt5_ready, delta, mt5_lock, utc_time, creds, delta_input, terminal,
                 gate, pc, loc, gpc, tpc, reqs, guiOps, fin>>

NextNorm == Normalize

SpecNorm == InitNorm /\ [][NextNorm]_vars

-----------------------------------------------------------------------------
(* The auto-detection alone: one reference bar, one reading of utcnow      *)
(* (lines 151-160) with the offset unresolved.                             *)

\* utcnow is up to MaxSkew minutes before or after the bar
MaxSkew == 50

\* times of the reference bar: the milliseconds line 155 adds are time % 1000
BarTimes == {1000 * 1000, 1000 * 1000 + 500, 1000 * 1000 + 999}

\* milliseconds of utcnow within its minute
SubMinute == {0, 500}

InitAuto ==
  /\ Quiet
  /\ delta = None
  /\ fin \in {[op |-> "auto", bar |-> b, skew |-> m, ms |-> e,
               now |-> b * 1000 + m * 60000 + e] :
                b \in BarTimes, m \in (0 - MaxSkew)..MaxSkew, e \in SubMinute}
  /\ fout = NoOut

AutoDetect ==
  /\ fin.op = "auto"
  /\ delta = None
  /\ delta' = Some(AutoDelta(fin.bar, fin.now))
  /\ UNCHANGED <<mt5_ready, mt5_lock, utc_time, creds, delta_input, terminal,
                 gate, pc, loc, gpc, tpc, reqs, guiOps, fin, fout>>

NextAuto == AutoDetect

SpecAuto == InitAuto /\ [][NextAuto]_vars

-----------------------------------------------------------------------------
(* Properties of the connection gate.                                      *)

GatePcs == {"e_check", "e_lock", "e_init", "e_login", "e_set"}

OtherThreadsStill == pc' = pc /\ loc' = loc /\ tpc' = tpc

\* C1: callers that run _ensure_mt5_ready concurrently while no gate call
\* fails make one initialize call and one login call between them, a caller
\* leaves the gate successfully only with mt5_ready set, and a caller fails in
\* the gate only without credentials or when a gate call failed.
C1_ExactlyOnce ==
  /\ [](/\ ~gate.failed => (gate.inits <= 1 /\ gate.logins <= 1)
        /\ (mt5_ready /\ ~gate.failed) => (gate.inits = 1 /\ gate.logins = 1))
  /\ [][\A w \in Workers :
          /\ (pc[w] \in GatePcs /\ pc'[w] \in {"d_check", "d_fetch"}) => mt5_ready'
          /\ (pc[w] \in GatePcs /\ pc'[w] = "done") => (creds = "absent" \/ gate'.failed)]_vars

\* C1 witness: every caller went past the unlocked check while Uninitialized;
\* one has initialized and logged in and holds the lock, the others wait for it
C1_Witness ==
  \E w \in Workers :
    /\ pc[w] = "e_set"
    /\ \A v \in Workers \ {w} : pc[v] = "e_lock"
    /\ gate.inits = 1 /\ gate.logins = 1 /\ ~gate.failed /\ gate.epoch = 0

\* C2: reset_mt5 completes with mt5_ready False, and mt5_ready is True only
\* after initialize and then login were called again since the last reset, the
\* successful login coming right after a successful initialize.
C2_ResetThenFresh ==
  /\ [](mt5_ready => (gate.last = "login+" /\ gate.inits >= 1 /\ gate.logins >= 1))
  /\ [][/\ (gpc = "r_set" /\ gpc' = "idle") => ~mt5_ready'
        /\ (gate' # gate /\ gate'.last = "login+") => gate.last = "init+"]_vars

\* C2 witness: Ready again after a reset, two requests having set mt5_ready
C2_Witness ==
  /\ mt5_ready
  /\ gate.epoch >= 1
  /\ \E w, v \in Workers :
       w # v /\ "mt5_ready" \in loc[w].wrote /\ "mt5_ready" \in loc[v].wrote

\* C3: a failed initialize ends the call with the initialization error and a
\* failed login with the login error, both with mt5_ready False and the lock
\* released; login is only ever called right after a successful initialize of
\* the same call, an initialized terminal that is not logged in never counts
\* as Ready, and a caller that finds mt5_ready False under the lock goes to
\* initialize.
C3_FailureKeepsNothing ==
  /\ [](/\ \A w \in Workers :
             pc[w] = "e_login" => (gate.last = "init+" /\ mt5_lock = Holder(w))
        /\ terminal = "init" => ~mt5_ready)
  /\ [][\A w \in Workers :
          /\ (pc[w] = "e_init" /\ pc'[w] = "done") =>
                /\ loc'[w].out = Http(500, "InitFailed")
                /\ ~mt5_ready' /\ mt5_lock' = Free
                /\ loc'[w].wrote = loc[w].wrote
          /\ (pc[w] = "e_login" /\ pc'[w] = "done" /\ gate'.last = "login-") =>
                /\ loc'[w].out = Http(500, "LoginFailed")
                /\ ~mt5_ready' /\ mt5_lock' = Free
                /\ loc'[w].wrote = loc[w].wrote
          /\ (pc[w] = "e_lock" /\ pc'[w] # "e_lock" /\ ~mt5_ready) => pc'[w] = "e_init"]_vars

\* C3 witness: after a failed login a later call has initialized again and is
\* about to log in
C3_Witness ==
  \E w \in Workers :
    /\ pc[w] = "e_login"
    /\ gate.failed /\ gate.logins >= 1 /\ gate.inits >= 2
    /\ ~mt5_ready

\* C4: mt5_ready goes from True to False only in the last step of reset_mt5 and
\* delta from a value to None only in reset_delta; neither step is a step of a
\* request or of the tracker.
C4_OnlyResetsRegress ==
  [][/\ (mt5_ready /\ ~mt5_ready') =>
          (gpc = "r_set" /\ gpc' = "idle" /\ OtherThreadsStill)
     /\ (delta # None /\ delta' = None) =>
          (gpc = "idle" /\ gpc' = "idle" /\ guiOps' = guiOps + 1 /\ OtherThreadsStill)]_vars

\* C4 witness: both regressions have happened after a request had set both
C4_Witness ==
  /\ gate.epoch >= 1
  /\ ~mt5_ready
  /\ delta = None
  /\ \E w \in Workers : {"mt5_ready", "delta"} \subseteq loc[w].wrote

-----------------------------------------------------------------------------
(* Properties of the requests' input errors.                               *)

InputErrors ==
  {"InvalidDeltaFormat", "InvalidTimeFormat", "InvalidTimeFormat253",
   "InvalidTimeFrame", "InvalidCount", "InvalidOffset"}

IsInputError(out) == out.kind = "http" /\ out.status = 400 /\ out.what \in InputErrors

\* C5 as stated: a request that ended with an input error has written neither
\* mt5_ready nor delta.
C5_NothingWritten ==
  \A w \in Workers :
    (pc[w] = "done" /\ IsInputError(loc[w].out)) => loc[w].wrote = {}

\* C5 amended: the step that raises an input error changes neither mt5_ready
\* nor delta nor what the request has written, and a request that ended with
\* the delta format error has not written delta.
C5_RejectingStepWritesNothing ==
  /\ [](\A w \in Workers :
          (pc[w] = "done" /\ loc[w].out = Http(400, "InvalidDeltaFormat")) =>
             "delta" \notin loc[w].wrote)
  /\ [][\A w \in Workers :
          (pc[w] # "done" /\ pc'[w] = "done" /\ IsInputError(loc'[w].out)) =>
             /\ mt5_ready' = mt5_ready
             /\ delta' = delta
             /\ loc'[w].wrote = loc[w].wrote]_vars

\* C5 witness: a request rejected for its delta text had set mt5_ready before
C5_Witness ==
  \E w \in Workers :
    /\ pc[w] = "done"
    /\ loc[w].out = Http(400, "InvalidDeltaFormat")
    /\ loc[w].wrote = {"mt5_ready"}

IsFetchRequest(l) == l.kind \in {"fetch", "range", "offset"}

\* C6 as stated: a fetch request with an unknown time frame ends with the
\* time frame error.
C6_AlwaysInvalidTimeFrame ==
  \A w \in Workers :
    (pc[w] = "done" /\ IsFetchRequest(loc[w]) /\ loc[w].tf \notin TIMEFRAME_MAP) =>
       loc[w].out = Http(400, "InvalidTimeFrame")

\* C6 amended: a fetch request with an unknown time frame never reaches the
\* parsing of the times, copy_rates_range, copy_rates_from_pos or the payload;
\* it never ends with a result, and once _ensure_mt5_ready and _ensure_delta
\* have returned it ends with the time frame error.
C6_UnknownTimeFrameNeverFetches ==
  \A w \in Workers :
    (IsFetchRequest(loc[w]) /\ loc[w].tf \notin TIMEFRAME_MAP) =>
       /\ ~loc[w].fetched
       /\ pc[w] \notin {"g_to", "g_fetch", "g_pay", "o_pay"}
       /\ pc[w] = "done" =>
            /\ loc[w].out.kind \in {"http", "exception"}
            /\ loc[w].kind \in {"range", "offset"} =>
                 loc[w].out = Http(400, "InvalidTimeFrame")

\* C6 witness: both handlers have rejected the time frame "X9"
C6_Witness ==
  \E w, v \in Workers :
    /\ pc[w] = "done" /\ loc[w].kind = "range" /\ loc[w].tf = "X9"
    /\ loc[w].out = Http(400, "InvalidTimeFrame")
    /\ pc[v] = "done" /\ loc[v].kind = "offset" /\ loc[v].tf = "X9"
    /\ loc[v].out = Http(400, "InvalidTimeFrame")

-----------------------------------------------------------------------------
(* Properties of the offset.                                               *)

Abs(n) == IF n < 0 THEN 0 - n ELSE n

HalfHourMs == 30 * 60 * 1000

\* secs is a multiple of 30 minutes at most 15 minutes away from rawMs
NearestHalfHour(secs, rawMs) ==
  /\ secs % 1800 = 0
  /\ 2 * Abs(secs * 1000 - rawMs) <= HalfHourMs

\* C7 as stated: the cached offset is the multiple of 30 minutes nearest to
\* bar instant minus utcnow, and -30 minutes when utcnow is the bar instant
\* plus 47 minutes.
C7_NearestAndMinus30 ==
  (fin.op = "auto" /\ delta # None) =>
     /\ NearestHalfHour(delta[1], fin.bar * 1000 - fin.now)
     /\ (fin.skew = 47 /\ fin.ms = 0) => delta = Some(0 - 1800)

\* C7 amended: the cached offset is the multiple of 30 minutes nearest to
\* (bar instant + (bar time % 1000) milliseconds - utcnow), an exact tie going
\* to the even multiple, and -60 minutes when utcnow is the bar instant plus
\* 47 minutes.
C7_NearestOfShiftedAndMinus60 ==
  (fin.op = "auto" /\ delta # None) =>
     LET raw == LocalTimeFirstTickMs(fin.bar) - fin.now
     IN /\ NearestHalfHour(delta[1], raw)
        /\ 2 * Abs(delta[1] * 1000 - raw) = HalfHourMs => (delta[1] \div 1800) % 2 = 0
        /\ (fin.skew = 47 /\ fin.ms = 0) => delta = Some(0 - 3600)

\* C7 witness: bar instant T, utcnow T + 47 minutes, -60 minutes cached
C7_Witness ==
  /\ fin.op = "auto"
  /\ fin.bar = 1000 * 1000 /\ fin.skew = 47 /\ fin.ms = 0
  /\ delta = Some(0 - 3600)

\* C8: _ensure_delta entered with delta set returns at once: delta, the text
\* read and the gate calls stay as they are; entered with delta None it reads
\* the Delta field as it is then, parses and caches a non-empty text, and goes
\* to _ensure_mt5_ready and the reference bar only when the text is empty.
C8_CachedThenTextThenAuto ==
  [][\A w \in Workers :
       /\ (pc[w] = "d_check" /\ pc'[w] # "d_check") =>
            IF delta # None
            THEN /\ pc'[w] \in {"g_from", "o_fetch"}
                 /\ delta' = delta /\ gate' = gate /\ terminal' = terminal
                 /\ loc'[w].gui_text = <<>> /\ loc'[w].wrote = loc[w].wrote
            ELSE IF Strip(delta_input) # <<>>
            THEN pc'[w] = "d_gui" /\ loc'[w].gui_text = Strip(delta_input)
            ELSE pc'[w] = "e_check" /\ loc'[w].ret = "delta"
       /\ (pc[w] = "d_gui" /\ pc'[w] \in {"g_from", "o_fetch"}) =>
            delta' = Some(_parse_delta_text(loc[w].gui_text).val)
       /\ (pc[w] \in {"e_check", "e_lock", "e_set"} /\ pc'[w] = "d_fetch") =>
            loc[w].ret = "delta"]_vars

\* C8 witness: a request has passed _ensure_delta without writing delta while
\* the Delta field holds a text that parses to another offset
C8_Witness ==
  \E w \in Workers :
    /\ pc[w] \in {"g_from", "o_fetch"}
    /\ "delta" \notin loc[w].wrote
    /\ delta = Some(0 - 3600)
    /\ delta_input = <<"6", "0">>

\* C9: without a reference bar _ensure_delta raises the reference tick error
\* in a step that leaves delta as it is, a request that ended with that error
\* has not written delta, and _ensure_delta entered with delta None never
\* returns from its first check: it goes on to the text or to the bar.
C9_UnavailableCachesNothing ==
  /\ [](\A w \in Workers :
          (pc[w] = "done" /\ loc[w].out = Http(500, "DeltaUnavailable")) =>
             "delta" \notin loc[w].wrote)
  /\ [][\A w \in Workers :
          /\ (pc[w] = "d_fetch" /\ pc'[w] = "done") =>
               (loc'[w].out = Http(500, "DeltaUnavailable") /\ delta' = delta)
          /\ (pc[w] = "d_check" /\ delta = None /\ pc'[w] # "d_check") =>
               pc'[w] \in {"d_gui", "e_check"}]_vars

\* C9 witness: one request has failed for want of a reference bar, the offset
\* is unresolved and another request is at the reference bar again
C9_Witness ==
  \E w, v \in Workers :
    /\ pc[w] = "done" /\ loc[w].out = Http(500, "DeltaUnavailable")
    /\ delta = None
    /\ pc[v] = "d_fetch"

-----------------------------------------------------------------------------
(* Properties of the normaliser.                                           *)

\* C10: for records with all eight fields the payload has one row per record,
\* in order: the record's time minus the offset, then its open, high, low,
\* close, tick_volume, spread and real_volume; no records give the empty payload.
C10_RowPerRecord ==
  (fin.op = "normalize" /\ fout # NoOut) =>
     /\ fin.df.rows = <<>> => fout = Ok(<<>>)
     /\ fin.df.cols = RawCols =>
          /\ fout.kind = "ok"
          /\ Len(fout.val) = Len(fin.df.rows)
          /\ \A i \in 1..Len(fin.df.rows) :
               LET r == fin.df.rows[i]
               IN fout.val[i] = <<r["time"] - fin.offset, r["open"], r["high"], r["low"],
                                  r["close"], r["tick_volume"], r["spread"], r["real_volume"]>>

\* C10 witness: two different records normalised with a non-zero offset
C10_Witness ==
  /\ fin.op = "normalize"
  /\ fin.df.cols = RawCols
  /\ Len(fin.df.rows) = 2
  /\ fin.df.rows[1] # fin.df.rows[2]
  /\ fin.offset = 0 - 3600
  /\ fout.kind = "ok" /\ Len(fout.val) = 2

\* C11: for a non-empty frame with one of the eight fields absent the payload
\* has one row per record in which the absent field counts as zero: an absent
\* time gives the adjusted time 0 minus the offset.
C11_MissingFieldIsZero ==
  (fin.op = "normalize" /\ fout # NoOut /\ fin.df.rows # <<>>) =>
     /\ fout.kind = "ok"
     /\ Len(fout.val) = Len(fin.df.rows)
     /\ \A i \in 1..Len(fin.df.rows) :
          LET r == fin.df.rows[i]
              Field(c) == IF c \in fin.df.cols THEN r[c] ELSE 0
          IN fout.val[i] = <<Field("time") - fin.offset, Field("open"), Field("high"),
                             Field("low"), Field("close"), Field("tick_volume"),
                             Field("spread"), Field("real_volume")>>

-----------------------------------------------------------------------------
(* The offset parser alone: _parse_delta_text applied to one text.         *)

\* longest text drawn freely from the alphabet
MaxTextLen == 4

TextAlphabet == {"-", "+", "0", "5", ":", " ", "x"}

\* sign characters put before a clock text, and the texts of its components
SignPrefixes == {<<>>, <<"-">>, <<"+">>, <<"-", "-">>, <<"+", "-">>}

ClockComponents ==
  {<<"0">>, <<"0", "0">>, <<"0", "1">>, <<"3", "0">>, <<"-", "1">>, <<"+", "1">>,
   <<"x">>, <<>>}

ClockTexts ==
  {p \o h \o <<":">> \o m : p \in SignPrefixes, h \in ClockComponents, m \in ClockComponents}
  \cup {p \o h \o <<":">> \o m \o <<":">> \o s :
          p \in SignPrefixes, h \in ClockComponents, m \in ClockComponents,
          s \in ClockComponents}

ParseTexts == SeqsUpTo(TextAlphabet, MaxTextLen) \cup ClockTexts

InitParse ==
  /\ Quiet
  /\ delta = None
  /\ fin \in {[op |-> "parse", text |-> t] : t \in ParseTexts}
  /\ fout = NoOut

Parse ==
  /\ fin.op = "parse"
  /\ fout = NoOut
  /\ fout' = _parse_delta_text(fin.text)
  /\ UNCHANGED <<mt5_ready, delta, mt5_lock, utc_time, creds, delta_input, terminal,
                 gate, pc, loc, gpc, tpc, reqs, guiOps, fin>>

NextParse == Parse

SpecParse == InitParse /\ [][NextParse]_vars

-----------------------------------------------------------------------------
(* Properties of the offset parser.                                        *)

\* HH:MM:SS: three components, each an integer text
IsClock3(u) ==
  LET parts == SplitColon(u)
  IN Len(parts) = 3 /\ \A i \in 1..3 : PyInt(parts[i]).ok

LeadingMinusClock(t) == t # <<>> /\ t[1] = "-" /\ IsClock3(Tail(t))

\* C12 as stated: a text "-" followed by HH:MM:SS parses to a negative
\* duration whose magnitude is that of the parse of the text without the "-".
C12_NegativeOfUnsigned ==
  (fin.op = "parse" /\ fout # NoOut /\ LeadingMinusClock(fin.text)) =>
     /\ fout.kind = "ok"
     /\ fout.val < 0
     /\ Abs(fout.val) = Abs(_parse_delta_text(Tail(fin.text)).val)

\* C12 amended: a text "-" followed by HH:MM:SS parses to minus
\* (3600 HH + 60 MM + SS), each component read as a signed integer: zero or
\* negative when the components are digits only, and the negation of the parse
\* of the text without the "-" when HH carries no sign of its own.
C12_NegationOfComponents ==
  (fin.op = "parse" /\ fout # NoOut /\ LeadingMinusClock(fin.text)) =>
     LET u == Tail(fin.text)
         parts == SplitColon(u)
         sum == 3600 * PyInt(parts[1]).val + 60 * PyInt(parts[2]).val + PyInt(parts[3]).val
     IN /\ fout = Ok(0 - sum)
        /\ (\A i \in 1..3 : IsDigit(parts[i])) => fout.val <= 0
        /\ Strip(u)[1] \notin {"+", "-"} => _parse_delta_text(u) = Ok(sum)

\* C12 witness: "--1:0:0" has parsed to plus one hour
C12_Witness ==
  /\ fin.op = "parse"
  /\ fin.text = <<"-", "-", "1", ":", "0", ":", "0">>
  /\ fout = Ok(3600)

AllDigits(s) == s # <<>> /\ \A i \in 1..Len(s) : s[i] \in Digits

Unsign(s) == IF s # <<>> /\ s[1] \in {"+", "-"} THEN Tail(s) ELSE s

\* the three forms of an offset text: zero, signed whole minutes, signed clock
RecognisedForm(t) ==
  LET s == Strip(t)
      parts == SplitColon(Unsign(s))
  IN \/ s \in {<<>>, <<"0">>, <<"+", "0">>, <<"-", "0">>}
     \/ AllDigits(Unsign(s))
     \/ Len(parts) \in {2, 3} /\ \A i \in 1..Len(parts) : AllDigits(parts[i])

\* C13: a text of none of the three forms fails with the delta format error.
C13_UnrecognisedIsInvalidFormat ==
  (fin.op = "parse" /\ fout # NoOut /\ ~RecognisedForm(fin.text)) =>
     fout = Http(400, "InvalidDeltaFormat")

-----------------------------------------------------------------------------
(* Properties of the offset under concurrency and of the connection reset. *)

\* C14: of the callers that run _ensure_delta concurrently at most one has
\* fetched the reference bar and is about to write delta.
C14_OneAutoDetection ==
  \A w, v \in Workers : (pc[w] = "d_set" /\ pc[v] = "d_set") => w = v

\* C15: reset_mt5 waits for mt5_lock and holds it from its test of mt5_ready to
\* its end, so no caller is between initialize and mt5_ready = True meanwhile;
\* it calls shutdown exactly when it reads mt5_ready True, goes on to set
\* mt5_ready False whether shutdown worked or raised, and ends with the lock
\* released.
C15_ResetUnderLock ==
  /\ [](/\ gpc \in {"r_shutdown", "r_set"} <=> mt5_lock = GuiHolder
        /\ gpc \in {"r_shutdown", "r_set"} =>
             \A w \in Workers : pc[w] \notin {"e_init", "e_login", "e_set"}
        /\ gpc = "r_shutdown" => mt5_ready)
  /\ [][/\ (gpc = "r_lock" /\ gpc' # "r_lock") =>
             /\ mt5_lock = Free
             /\ gpc' = IF mt5_ready THEN "r_shutdown" ELSE "r_set"
        /\ (gpc = "r_shutdown" /\ gpc' # "r_shutdown") =>
             /\ gpc' = "r_set"
             /\ terminal' \in {"down", terminal}
             /\ mt5_ready' = mt5_ready
        /\ (gpc = "r_set" /\ gpc' # "r_set") =>
             (gpc' = "idle" /\ ~mt5_ready' /\ mt5_lock' = Free /\ terminal' = terminal)]_vars

\* C15 witness: a reset has ended with mt5_ready False although its shutdown
\* raised and left the terminal logged in
C15_Witness ==
  /\ gpc = "idle"
  /\ gate = NoGate(1)
  /\ terminal = "logged"
  /\ ~mt5_ready
  /\ mt5_lock = Free

\* C16: _ensure_delta entered with delta None and a non-empty Delta text goes
\* to the parse of that text without entering _ensure_mt5_ready; the parse
\* step calls neither initialize, login nor a fetch and touches neither
\* mt5_ready nor the lock, whatever mt5_ready is, and caches the parsed value
\* when the text parses.
C16_TextPathNeedsNoTerminal ==
  /\ [](\A w \in Workers : pc[w] = "d_gui" => (loc[w].ret = "req" /\ loc[w].gui_text # <<>>))
  /\ [][\A w \in Workers :
          /\ (pc[w] = "d_check" /\ pc'[w] # "d_check" /\ delta = None
                /\ Strip(delta_input) # <<>>) =>
               /\ pc'[w] = "d_gui"
               /\ UNCHANGED <<mt5_ready, mt5_lock, terminal, gate, utc_time, delta>>
          /\ (pc[w] = "d_gui" /\ pc'[w] # "d_gui") =>
               /\ UNCHANGED <<mt5_ready, mt5_lock, terminal, gate, utc_time>>
               /\ ~loc'[w].fetched
               /\ LET parsed == _parse_delta_text(loc[w].gui_text)
                  IN IF parsed.kind = "ok"
                     THEN delta' = Some(parsed.val) /\ pc'[w] \in {"g_from", "o_fetch"}
                     ELSE delta' = delta /\ pc'[w] = "done" /\ loc'[w].out = parsed]_vars

\* C16 witness: a request has cached the parsed text while the connection is
\* Uninitialized and the terminal down, no initialize or login made since the
\* reset
C16_Witness ==
  \E w \in Workers :
    /\ pc[w] \in {"g_from", "o_fetch"}
    /\ loc[w].wrote = {"delta"}
    /\ delta = Some(3600)
    /\ ~mt5_ready /\ terminal = "down" /\ gate = NoGate(1)

\* C17: update_utc_time goes to its fetch only when it reads mt5_ready True;
\* its steps change nothing but utc_time and its own position: not mt5_ready,
\* delta, the lock, the terminal or any other thread; utc_time changes only in
\* a fetch that returned a bar, and every fetch leads back to the next tick.
C17_TrackerOnlyTracks ==
  [][/\ tpc' # tpc =>
          /\ UNCHANGED <<mt5_ready, delta, mt5_lock, terminal, gate, creds, delta_input,
                         pc, loc, gpc, reqs, guiOps>>
          /\ tpc = "t_check" => (mt5_ready /\ tpc' = "t_fetch" /\ utc_time' = utc_time)
          /\ tpc = "t_fetch" =>
               /\ tpc' = "t_check"
               /\ utc_time' \in {utc_time, Some(RefBarTime)}
               /\ terminal # "logged" => utc_time' = utc_time
     /\ utc_time' # utc_time => (tpc = "t_fetch" /\ terminal = "logged")]_vars

\* C17 witness: the tracker has tracked a bar and is at a fetch that can only
\* fail, the terminal having been shut down while another thread holds the lock
C17_Witness ==
  /\ utc_time = Some(RefBarTime)
  /\ tpc = "t_fetch"
  /\ terminal = "down"
  /\ mt5_lock # Free

-----------------------------------------------------------------------------
(* Properties of the requests under the operator's resets.                 *)

\* C19: once _ensure_delta has returned to a handler the offset it reads is
\* never None, and get_candles builds its payload with the offset it shifted
\* time_from and time_to by.
C19_OneResolvedOffset ==
  \A w \in Workers :
    /\ pc[w] \in {"g_from", "g_to", "g_pay", "o_pay"} => delta # None
    /\ pc[w] \in {"g_fetch", "g_pay"} => loc[w].dFrom = loc[w].dTo
    /\ pc[w] = "g_pay" => loc[w].dTo = delta

\* C20: a thread about to fetch bars (copy_rates_range, the reference bar of
\* _ensure_delta, the bar of update_utc_time) finds mt5_ready True and the
\* terminal logged in.
C20_FetchOnlyWhileReady ==
  /\ \A w \in Workers : pc[w] \in {"d_fetch", "g_fetch"} => (mt5_ready /\ terminal = "logged")
  /\ tpc = "t_fetch" => (mt5_ready /\ terminal = "logged")

-----------------------------------------------------------------------------
(* Termination.  Every terminal call of the model returns in one step and  *)
(* the scheduler runs every thread that can take a step.  The number of    *)
(* requests and of button presses is bounded, so a thread waiting for      *)
(* mt5_lock is overtaken only finitely often and weak fairness is enough.  *)
(* The Delta field keeps the text it has at the start (empty or not a      *)
(* duration) and the credentials stay as typed.                            *)

\* a step of worker w's handler, once the request has arrived
WorkerStep(w) ==
  \/ EnsureCheck(w) \/ EnsureLock(w) \/ EnsureInit(w) \/ EnsureLogin(w) \/ EnsureSet(w)
  \/ DeltaCheck(w) \/ DeltaGui(w) \/ DeltaFetch(w) \/ DeltaSet(w)
  \/ RangeFrom(w) \/ RangeTo(w) \/ RangeFetch(w) \/ OffsetFetch(w) \/ Payload(w)
  \/ Status(w)

InitLive == Init /\ delta_input \in {<<>>, <<"x">>}

NextLive ==
  \/ \E w \in Workers : Start(w) \/ Respond(w) \/ WorkerStep(w)
  \/ ResetPress \/ ResetLock \/ ResetShutdown \/ ResetSet
  \/ TrackerCheck \/ TrackerFetch

Fairness ==
  /\ \A w \in Workers : WF_vars(WorkerStep(w))
  /\ WF_vars(ResetLock \/ ResetShutdown \/ ResetSet)

SpecLive == InitLive /\ [][NextLive]_vars /\ Fairness

\* C18: every handler that has started ends (with a response or an error) and
\* every reset_mt5 that has started ends; mt5_lock is held only by a caller
\* between initialize and mt5_ready = True or by a running reset_mt5, so it is
\* free after every exit.
C18_EveryCallReturns ==
  /\ [](/\ \A w \in Workers :
             mt5_lock = Holder(w) <=> pc[w] \in {"e_init", "e_login", "e_set"}
        /\ mt5_lock = GuiHolder <=> gpc \in {"r_shutdown", "r_set"})
  /\ \A w \in Workers : (pc[w] \notin {"idle", "done"}) ~> (pc[w] = "done")
  /\ (gpc # "idle") ~> (gpc = "idle")

\* C18 witness: a caller has left the gate on the login-failure path while
\* another caller and reset_mt5 wait for the lock, which is free
C18_Witness ==
  \E w, v \in Workers :
    /\ pc[w] = "done" /\ loc[w].out = Http(500, "LoginFailed")
    /\ pc[v] = "e_lock"
    /\ gpc = "r_lock"
    /\ mt5_lock = Free

====
